---------------------------- MODULE Spec2Model ----------------------------
(***************************************************************************)
(* A model of the Wayland presentation layer of v4l2-decode                *)
(* (src/display.c): the session (struct display), the window (struct       *)
(* window), the dmabuf import handshake and the frame buffer show/release  *)
(* life cycle.                                                             *)
(*                                                                         *)
(* The producer is single threaded.  Protocol events are dispatched only   *)
(* inside wl_display_roundtrip, so every listener is an action that is     *)
(* enabled only while the producer is inside a round-trip (pc ends in      *)
(* "_rt"); a listener runs to completion, hence one action per listener.   *)
(***************************************************************************)
EXTENDS Integers, Sequences, FiniteSets, TLC

\* ------------------------------------------------------------------ bounds
\* globals advertised during the registry round-trip of display_create
MaxGlobals == 4
\* frame buffers the producer creates during one run
MaxFb == 2
\* window and buffer dimensions explored by the specification of window_recenter
MaxDim == 4
\* saturation of the counters (release callbacks of a show cycle, frees of a slot)
CbCap == 2

\* --------------------------------------------------------------- constants
NULL == 0

\* entries of drm_formats in struct display
FormatCap == 32

\* interface names compared by registry_handle_global, and one it ignores
Interfaces ==
    {"wl_compositor", "wp_viewporter", "zxdg_shell_v6", "zwp_linux_dmabuf_v1",
     "wl_seat"}

\* serials carried by surface configure events
Serials == {1, 2}

\* (width, height) pairs carried by toplevel configure events
ConfigSizes == {<<0, 0>>, <<1280, 720>>, <<1920, 1080>>}

\* (width, height) of the decoded frames the producer imports
BufSizes == {<<1920, 1080>>}

\* (width, height) of the frames of a stream that changes resolution
FrameSizes == {<<1920, 1080>>, <<1280, 720>>}

\* fourcc codes carried by format events (NV12, XR24)
Formats == {842094158, 875713112}

FbIds == 1 .. MaxFb

VARIABLES
    pc,        \* where the producer is: "start", "registry_rt", "idle",
               \* "create_rt", "show_rt", "failed", "crashed", "aborted"
    d,         \* struct display
    handles,   \* protocol handles of the session in creation order (id = index)
    released,  \* ids of the session's handles in the order they were released
    advertised,\* interfaces dispatched to registry_handle_global, in order
    w,         \* struct window
    surf,      \* the compositor's side of the surface: what it has been told,
               \* and the size of the last positive toplevel configure it sent
    fb,        \* struct fb, one per slot
    params,    \* slots whose buffer-parameters object awaits its reply
    busy,      \* slots whose wl_buffer the compositor holds (committed, not released)
    obs,       \* per slot observations: shown, callbacks and commits of the show cycle
    call,      \* the API call in progress (or the last one)
    last,      \* the function that ran in the last step, and its result
    reqs,      \* protocol requests issued by the last step, in order
    uaf        \* TRUE once a step has read or written freed memory

vars == <<pc, d, handles, released, advertised, w, surf, fb, params, busy,
          obs, call, last, reqs, uaf>>

\* ------------------------------------------------------------------ helpers
Min(a, b) == IF a < b THEN a ELSE b

Max(a, b) == IF a < b THEN b ELSE a

Abs(a) == IF a < 0 THEN -a ELSE a

Range(sq) == {sq[i] : i \in 1 .. Len(sq)}

Req(name, a, b) == [req |-> name, a |-> a, b |-> b]

\* what the last step ran: the function, whether an allocation failed in it,
\* its result (NULL for none), and for a return of window_create_buffer the
\* slot of the call and the reply its round-trip dispatched; for dmabuf_format
\* the result is the index of drm_formats it wrote (-1 when it wrote nothing)
Ran(op, oom, ret, f, reply) ==
    [op |-> op, oom |-> oom, ret |-> ret, fb |-> f, reply |-> reply]

Last(op, oom, ret) == Ran(op, oom, ret, NULL, "none")

\* the last step was a listener dispatched by a round-trip
Listener == Last("listener", FALSE, NULL)

NoDest == <<0, 0>>

\* calloc'ed struct display
ZeroDisplay ==
    [alive |-> FALSE, display |-> NULL, registry |-> NULL, compositor |-> NULL,
     xdg_shell |-> NULL, viewporter |-> NULL, dmabuf |-> NULL,
     drm_format_count |-> 0, running |-> FALSE]

\* calloc'ed struct window
ZeroWindow ==
    [state |-> "none", viewport |-> FALSE, xdg |-> FALSE, buffer |-> NULL,
     width |-> 0, height |-> 0, size_set |-> FALSE, configured |-> FALSE]

\* calloc'ed struct fb
ZeroFb ==
    [state |-> "none", width |-> 0, height |-> 0, buffer |-> FALSE,
     release_cb |-> FALSE, fd_closed |-> FALSE, frees |-> 0, creates |-> 0]

ZeroObs == [shown |-> FALSE, cbs |-> 0]

ZeroSurf == [dest |-> NoDest, attached |-> NULL, size |-> NoDest]

ZeroCall == [op |-> "none", fb |-> NULL, unconf |-> FALSE, reply |-> "none"]

\* ------------------------------------------------------------------ session
\* display_destroy with the compositor released before the viewporter
DestroyOrder_CompositorFirst(dd) ==
    SelectSeq(<<dd.compositor, dd.viewporter, dd.xdg_shell, dd.dmabuf,
                dd.registry, dd.display>>, LAMBDA h : h # NULL)

\* the handles display_destroy releases, in the order of its if-chain
DestroyOrder(dd) ==
    SelectSeq(<<dd.viewporter, dd.compositor, dd.xdg_shell, dd.dmabuf,
                dd.registry, dd.display>>, LAMBDA h : h # NULL)

\* the globals test with && written for ||
MissingGlobals_And(dd) == dd.xdg_shell = NULL /\ dd.dmabuf = NULL

\* the mandatory-globals test of display_create
MissingGlobals(dd) == dd.xdg_shell = NULL \/ dd.dmabuf = NULL

\* registry_handle_global: the field of struct display an interface is bound to
BoundField(interface) ==
    CASE interface = "wl_compositor" -> "compositor"
      [] interface = "wp_viewporter" -> "viewporter"
      [] interface = "zxdg_shell_v6" -> "xdg_shell"
      [] interface = "zwp_linux_dmabuf_v1" -> "dmabuf"
      [] OTHER -> "none"

\* registry_handle_global on (struct display, handles): bind and store, or ignore
Bind(st, interface) ==
    IF BoundField(interface) = "none"
      THEN st
      ELSE [d |-> [st.d EXCEPT ![BoundField(interface)] = Len(st.handles) + 1],
            handles |-> Append(st.handles, interface)]

\* struct display and its handles once wl_display_get_registry has returned
Connected ==
    [d |-> [ZeroDisplay EXCEPT !.alive = TRUE, !.display = 1, !.registry = 2],
     handles |-> <<"wl_display", "wl_registry">>]

\* display_create up to its round-trip; calloc or wl_display_connect may fail
DisplayCreate ==
    /\ pc = "start"
    /\ \/ /\ pc' = "failed"
          /\ last' = Last("display_create", TRUE, NULL)
          /\ UNCHANGED <<d, handles, released>>
       \/ /\ pc' = "failed"
          /\ last' = Last("display_create", FALSE, NULL)
          /\ UNCHANGED <<d, handles, released>>
       \/ /\ pc' = "registry_rt"
          /\ handles' = Connected.handles
          /\ d' = Connected.d
          /\ last' = Last("display_create", FALSE, NULL)
          /\ UNCHANGED released
    /\ reqs' = <<>>
    /\ UNCHANGED <<advertised, w, surf, fb, params, busy, obs, call, uaf>>

\* registry_handle_global, dispatched by the round-trip of display_create
RegistryHandleGlobal(interface) ==
    /\ pc = "registry_rt"
    /\ Len(advertised) < MaxGlobals
    /\ advertised' = Append(advertised, interface)
    /\ d' = Bind([d |-> d, handles |-> handles], interface).d
    /\ handles' = Bind([d |-> d, handles |-> handles], interface).handles
    /\ reqs' = IF handles' = handles THEN <<>>
               ELSE <<Req("bind", Len(handles'), 1)>>
    /\ last' = Listener
    /\ UNCHANGED <<pc, released, w, surf, fb, params, busy, obs, call, uaf>>

\* display_create after its round-trip: the globals test, then running = 1 or fail:
DisplayCreateReturn ==
    /\ pc = "registry_rt"
    /\ IF MissingGlobals(d)
         THEN /\ released' = released \o DestroyOrder(d)
              /\ d' = [d EXCEPT !.alive = FALSE]
              /\ pc' = "failed"
              /\ last' = Last("display_create.return", FALSE, NULL)
         ELSE /\ d' = [d EXCEPT !.running = TRUE]
              /\ pc' = "idle"
              /\ last' = Last("display_create.return", FALSE, 1)
              /\ UNCHANGED released
    /\ reqs' = <<>>
    /\ UNCHANGED <<handles, advertised, w, surf, fb, params, busy, obs, call, uaf>>

\* display_destroy, called by the producer last (children before parents)
DisplayDestroy ==
    /\ pc = "idle"
    /\ d.alive
    /\ w.state # "live"
    /\ \A f \in FbIds : fb[f].state # "live"
    /\ released' = released \o DestroyOrder(d)
    /\ d' = [d EXCEPT !.alive = FALSE]
    /\ pc' = "destroyed"
    /\ last' = Last("display_destroy", FALSE, NULL)
    /\ reqs' = <<>>
    /\ UNCHANGED <<handles, advertised, w, surf, fb, params, busy, obs, call, uaf>>

\* the process before display_create
InitSession ==
    /\ pc = "start"
    /\ d = ZeroDisplay
    /\ handles = <<>>
    /\ released = <<>>
    /\ advertised = <<>>
    /\ w = ZeroWindow
    /\ surf = ZeroSurf
    /\ fb = [f \in FbIds |-> ZeroFb]
    /\ params = {}
    /\ busy = {}
    /\ obs = [f \in FbIds |-> ZeroObs]
    /\ call = ZeroCall
    /\ last = Last("none", FALSE, NULL)
    /\ reqs = <<>>
    /\ uaf = FALSE

NextSession ==
    \/ DisplayCreate
    \/ \E i \in Interfaces : RegistryHandleGlobal(i)
    \/ DisplayCreateReturn
    \/ DisplayDestroy

\* the session alone: display_create over every advertisement, display_destroy
SpecSession == InitSession /\ [][NextSession]_vars

\* ------------------------------------------------------------------- window
InRoundtrip == pc \in {"create_rt", "show_rt"}

\* window_recenter scaling the window's height where it scales the width
RecenterDest_HeightScaled(W, H, bw, bh) ==
    IF bw > bh THEN <<W, (H * bh) \div bw>>
               ELSE <<(H * bw) \div bh, H>>

\* window_recenter treating a square buffer as a landscape one
RecenterDest_SquareByWidth(W, H, bw, bh) ==
    IF bw >= bh THEN <<W, (W * bh) \div bw>>
                ELSE <<(H * bw) \div bh, H>>

\* the integer arithmetic of window_recenter (C int division truncates)
RecenterDest(W, H, bw, bh) ==
    IF bw > bh THEN <<W, (W * bh) \div bw>>
               ELSE <<(H * bw) \div bh, H>>

\* the guard of window_recenter: it computes iff this holds
CanRecenter(win) ==
    win.buffer # NULL /\ win.viewport /\ win.width > 0 /\ win.height > 0

\* window_recenter: the request it issues, if any
RecenterReqs(win, fbs) ==
    IF CanRecenter(win)
      THEN <<Req("set_destination",
                 RecenterDest(win.width, win.height, fbs[win.buffer].width,
                              fbs[win.buffer].height)[1],
                 RecenterDest(win.width, win.height, fbs[win.buffer].width,
                              fbs[win.buffer].height)[2])>>
      ELSE <<>>

\* the wl_buffer window_commit attaches: fb ? fb->buffer : NULL
Attached(win, fbs) ==
    IF win.buffer # NULL /\ fbs[win.buffer].buffer THEN win.buffer ELSE NULL

\* window_commit: opaque region, attach, damage, commit
CommitReqs(win, fbs) ==
    <<Req("set_opaque_region", win.width, win.height),
      Req("attach", Attached(win, fbs), 0),
      Req("damage", win.width, win.height),
      Req("commit", 0, 0)>>

\* the surface state after the requests rq, applied in order
RECURSIVE SurfAfter(_, _)
SurfAfter(s, rq) ==
    IF rq = <<>> THEN s
    ELSE LET r == Head(rq)
             s1 == CASE r.req = "set_destination" -> [s EXCEPT !.dest = <<r.a, r.b>>]
                     [] r.req = "attach" -> [s EXCEPT !.attached = r.a]
                     [] OTHER -> s
         IN SurfAfter(s1, Tail(rq))

\* the buffer a sequence of requests commits to the surface (NULL when none)
Committed(rq) ==
    LET att == SelectSeq(rq, LAMBDA r : r.req = "attach")
    IN IF att = <<>> THEN NULL ELSE att[Len(att)].a

\* the compositor holds a committed buffer whose wl_buffer exists until it releases it
BusyAfter(b, rq, fbs) ==
    IF Committed(rq) # NULL /\ fbs[Committed(rq)].state = "live"
      THEN b \cup {Committed(rq)} ELSE b

\* display_create_window; calloc may fail; a NULL compositor is dereferenced
DisplayCreateWindow ==
    /\ pc = "idle"
    /\ d.alive
    /\ w.state = "none"
    /\ \/ /\ last' = Last("display_create_window", TRUE, NULL)
          /\ reqs' = <<>>
          /\ UNCHANGED <<pc, w, surf>>
       \/ /\ d.compositor = NULL
          /\ pc' = "crashed"
          /\ last' = Last("display_create_window", FALSE, NULL)
          /\ reqs' = <<>>
          /\ UNCHANGED <<w, surf>>
       \/ /\ d.compositor # NULL
          /\ w' = [ZeroWindow EXCEPT !.state = "live",
                                     !.xdg = (d.xdg_shell # NULL),
                                     !.viewport = (d.viewporter # NULL)]
          /\ reqs' = <<Req("create_surface", 0, 0)>>
                     \o (IF d.xdg_shell # NULL
                           THEN <<Req("get_xdg_surface", 0, 0), Req("get_toplevel", 0, 0),
                                  Req("set_title", 0, 0), Req("commit", 0, 0)>>
                           ELSE <<>>)
                     \o (IF d.viewporter # NULL
                           THEN <<Req("get_viewport", 0, 0)>> ELSE <<>>)
          /\ surf' = ZeroSurf
          /\ last' = Last("display_create_window", FALSE, 1)
          /\ UNCHANGED pc
    /\ UNCHANGED <<d, handles, released, advertised, fb, params, busy, obs, call, uaf>>

\* window_destroy: toplevel, xdg surface, viewport, surface, free
WindowDestroy ==
    /\ pc = "idle"
    /\ w.state = "live"
    /\ w' = [w EXCEPT !.state = "freed"]
    /\ reqs' = (IF w.xdg THEN <<Req("toplevel_destroy", 0, 0),
                                Req("xdg_surface_destroy", 0, 0)>> ELSE <<>>)
               \o (IF w.viewport THEN <<Req("viewport_destroy", 0, 0)>> ELSE <<>>)
               \o <<Req("surface_destroy", 0, 0)>>
    /\ last' = Last("window_destroy", FALSE, NULL)
    /\ UNCHANGED <<pc, d, handles, released, advertised, surf, fb, params, busy,
                   obs, call, uaf>>

\* xdg_toplevel_handle_configure without the test of width and height
XdgToplevelConfigure_AcceptsAny(width, height) ==
    /\ InRoundtrip
    /\ w.state = "live" /\ w.xdg
    /\ IF ~w.viewport
         THEN UNCHANGED w
         ELSE IF w.width # width \/ w.height # height
                THEN w' = [w EXCEPT !.width = width, !.height = height,
                                    !.size_set = TRUE]
                ELSE UNCHANGED w
    /\ surf' = IF width > 0 /\ height > 0
                 THEN [surf EXCEPT !.size = <<width, height>>] ELSE surf
    /\ reqs' = <<>>
    /\ last' = Listener
    /\ UNCHANGED <<pc, d, handles, released, advertised, fb, params, busy,
                   obs, call, uaf>>

\* xdg_toplevel_handle_configure
XdgToplevelConfigure(width, height) ==
    /\ InRoundtrip
    /\ w.state = "live" /\ w.xdg
    /\ IF width <= 0 \/ height <= 0 \/ ~w.viewport
         THEN UNCHANGED w
         ELSE IF w.width # width \/ w.height # height
                THEN w' = [w EXCEPT !.width = width, !.height = height,
                                    !.size_set = TRUE]
                ELSE UNCHANGED w
    /\ surf' = IF width > 0 /\ height > 0
                 THEN [surf EXCEPT !.size = <<width, height>>] ELSE surf
    /\ reqs' = <<>>
    /\ last' = Listener
    /\ UNCHANGED <<pc, d, handles, released, advertised, fb, params, busy,
                   obs, call, uaf>>

\* a close handler that also drops the window's current buffer
XdgToplevelClose_DropsBuffer ==
    /\ InRoundtrip
    /\ w.state = "live" /\ w.xdg
    /\ d' = [d EXCEPT !.running = FALSE]
    /\ w' = [w EXCEPT !.buffer = NULL]
    /\ reqs' = <<>>
    /\ last' = Listener
    /\ UNCHANGED <<pc, handles, released, advertised, surf, fb, params, busy,
                   obs, call, uaf>>

\* xdg_toplevel_handle_close
XdgToplevelClose ==
    /\ InRoundtrip
    /\ w.state = "live" /\ w.xdg
    /\ d' = [d EXCEPT !.running = FALSE]
    /\ reqs' = <<>>
    /\ last' = Listener
    /\ UNCHANGED <<pc, handles, released, advertised, w, surf, fb, params, busy,
                   obs, call, uaf>>

\* xdg_surface_handle_configure acknowledging the serial after its commit
XdgSurfaceConfigure_AckLast(serial) ==
    /\ InRoundtrip
    /\ w.state = "live" /\ w.xdg
    /\ LET w1 == [w EXCEPT !.configured = TRUE]
           stale == CanRecenter(w1) /\ fb[w1.buffer].state = "freed"
           rq == RecenterReqs(w1, fb)
                 \o (IF CanRecenter(w1) THEN CommitReqs(w1, fb) ELSE <<>>)
                 \o <<Req("ack_configure", serial, 0), Req("flush", 0, 0)>>
       IN /\ uaf' = (uaf \/ stale)
          /\ \/ /\ stale
                /\ pc' = "crashed"
                /\ reqs' = <<>>
                /\ w' = w1
                /\ UNCHANGED <<surf, busy>>
             \/ /\ w' = w1
                /\ reqs' = rq
                /\ surf' = SurfAfter(surf, rq)
                /\ busy' = BusyAfter(busy, rq, fb)
                /\ UNCHANGED pc
    /\ last' = Listener
    /\ UNCHANGED <<d, handles, released, advertised, fb, params, obs, call>>

\* xdg_surface_handle_configure: ack, configured, recenter and (if it computed)
\* commit, flush.  Reading a freed current buffer is undefined: the handler
\* either faults or goes on with what the freed memory still holds.
XdgSurfaceConfigure(serial) ==
    /\ InRoundtrip
    /\ w.state = "live" /\ w.xdg
    /\ LET w1 == [w EXCEPT !.configured = TRUE]
           stale == CanRecenter(w1) /\ fb[w1.buffer].state = "freed"
           rq == <<Req("ack_configure", serial, 0)>>
                 \o RecenterReqs(w1, fb)
                 \o (IF CanRecenter(w1) THEN CommitReqs(w1, fb) ELSE <<>>)
                 \o <<Req("flush", 0, 0)>>
       IN /\ uaf' = (uaf \/ stale)
          /\ \/ /\ stale
                /\ pc' = "crashed"
                /\ reqs' = <<Req("ack_configure", serial, 0)>>
                /\ w' = w1
                /\ surf' = SurfAfter(surf, reqs')
                /\ UNCHANGED busy
             \/ /\ w' = w1
                /\ reqs' = rq
                /\ surf' = SurfAfter(surf, rq)
                /\ busy' = BusyAfter(busy, rq, fb)
                /\ UNCHANGED pc
    /\ last' = Listener
    /\ UNCHANGED <<d, handles, released, advertised, fb, params, obs, call>>

\* ------------------------------------------------------------ frame buffers
\* the slot the next calloc of a struct fb gets
FreeSlot == CHOOSE f \in FbIds : fb[f].state = "none" /\ \A g \in 1 .. f - 1 : fb[g].state # "none"

\* fb_destroy: wl_buffer_destroy if a handle is bound, then free; the fd is left alone
FbDestroyed(fbs, f) ==
    [fbs EXCEPT ![f].state = "freed", ![f].frees = Min(@ + 1, CbCap)]

FbDestroyReqs(fbs, f) ==
    IF fbs[f].buffer THEN <<Req("buffer_destroy", f, 0)>> ELSE <<>>

\* fb_destroy called by the producer on a buffer it was given
FbDestroy(f) ==
    /\ pc = "idle"
    /\ fb[f].state = "live"
    /\ fb' = FbDestroyed(fb, f)
    /\ reqs' = FbDestroyReqs(fb, f)
    /\ busy' = busy \ {f}
    /\ last' = Last("fb_destroy", FALSE, NULL)
    /\ UNCHANGED <<pc, d, handles, released, advertised, w, surf, params, obs,
                   call, uaf>>

\* window_create_buffer up to its round-trip.  The result of calloc is not
\* tested: on failure the first store goes through a null pointer.
WindowCreateBuffer(width, height) ==
    /\ pc = "idle"
    /\ d.alive
    /\ w.state = "live"
    /\ \E f \in FbIds : fb[f].state = "none"
    /\ \/ /\ pc' = "crashed"
          /\ last' = Last("window_create_buffer", TRUE, NULL)
          /\ reqs' = <<>>
          /\ UNCHANGED <<fb, params, call>>
       \/ /\ fb' = [fb EXCEPT ![FreeSlot] =
                      [ZeroFb EXCEPT !.state = "live", !.width = width,
                                     !.height = height, !.creates = 1]]
          /\ params' = params \cup {FreeSlot}
          /\ reqs' = <<Req("create_params", FreeSlot, 0),
                       Req("params_add", 0, 0),
                       Req("params_create", width, height)>>
          /\ call' = [op |-> "window_create_buffer", fb |-> FreeSlot,
                      unconf |-> FALSE, reply |-> "none"]
          /\ pc' = "create_rt"
          /\ last' = Last("window_create_buffer", FALSE, NULL)
    /\ UNCHANGED <<d, handles, released, advertised, w, surf, busy, obs, uaf>>

\* create_succeeded: bind the wl_buffer, add the release listener, destroy params.
\* A reply that arrives after window_create_buffer freed the fb writes freed memory.
CreateSucceeded(f) ==
    /\ InRoundtrip
    /\ f \in params
    /\ params' = params \ {f}
    /\ reqs' = <<Req("params_destroy", f, 0)>>
    /\ IF fb[f].state = "live"
         THEN /\ fb' = [fb EXCEPT ![f].buffer = TRUE]
              /\ call' = IF call.fb = f THEN [call EXCEPT !.reply = "created"] ELSE call
              /\ UNCHANGED <<pc, uaf>>
         ELSE /\ uaf' = TRUE
              /\ pc' \in {pc, "crashed"}
              /\ UNCHANGED <<fb, call>>
    /\ last' = Listener
    /\ UNCHANGED <<d, handles, released, advertised, w, surf, busy, obs>>

\* create_failed without its last statement (running is left alone)
CreateFailed_KeepsRunning(f) ==
    /\ InRoundtrip
    /\ f \in params
    /\ params' = params \ {f}
    /\ reqs' = <<Req("params_destroy", f, 0)>>
    /\ IF fb[f].state = "live"
         THEN /\ fb' = [fb EXCEPT ![f].buffer = FALSE]
              /\ call' = IF call.fb = f THEN [call EXCEPT !.reply = "failed"] ELSE call
              /\ UNCHANGED <<pc, uaf>>
         ELSE /\ uaf' = TRUE
              /\ pc' \in {pc, "crashed"}
              /\ UNCHANGED <<fb, call>>
    /\ last' = Listener
    /\ UNCHANGED <<d, handles, released, advertised, w, surf, busy, obs>>

\* create_failed: handle stays NULL, destroy params, running = 0
CreateFailed(f) ==
    /\ InRoundtrip
    /\ f \in params
    /\ params' = params \ {f}
    /\ reqs' = <<Req("params_destroy", f, 0)>>
    /\ IF fb[f].state = "live"
         THEN /\ fb' = [fb EXCEPT ![f].buffer = FALSE]
              /\ call' = IF call.fb = f THEN [call EXCEPT !.reply = "failed"] ELSE call
              /\ d' = [d EXCEPT !.running = FALSE]
              /\ UNCHANGED <<pc, uaf>>
         ELSE /\ uaf' = TRUE
              /\ \/ pc' = "crashed" /\ UNCHANGED d
                 \/ pc' = pc /\ d' = [d EXCEPT !.running = FALSE]
              /\ UNCHANGED <<fb, call>>
    /\ last' = Listener
    /\ UNCHANGED <<handles, released, advertised, w, surf, busy, obs>>

\* window_create_buffer returning NULL without fb_destroy
WindowCreateBufferReturn_Leaks ==
    /\ pc = "create_rt"
    /\ last' = Ran("window_create_buffer.return", FALSE,
                   IF fb[call.fb].buffer THEN call.fb ELSE NULL, call.fb, call.reply)
    /\ reqs' = <<>>
    /\ pc' = "idle"
    /\ call' = ZeroCall
    /\ UNCHANGED <<d, handles, released, advertised, w, surf, fb, params, busy, obs,
                   uaf>>

\* window_create_buffer after its round-trip: no handle -> fb_destroy, NULL
WindowCreateBufferReturn ==
    /\ pc = "create_rt"
    /\ IF ~fb[call.fb].buffer
         THEN /\ fb' = FbDestroyed(fb, call.fb)
              /\ reqs' = FbDestroyReqs(fb, call.fb)
              /\ last' = Ran("window_create_buffer.return", FALSE, NULL, call.fb,
                           call.reply)
         ELSE /\ reqs' = <<>>
              /\ last' = Ran("window_create_buffer.return", FALSE, call.fb, call.fb,
                           call.reply)
              /\ UNCHANGED fb
    /\ pc' = "idle"
    /\ call' = ZeroCall
    /\ UNCHANGED <<d, handles, released, advertised, w, surf, params, busy, obs,
                   uaf>>

\* window_show_buffer without the test of window->configured
WindowShowBuffer_AlwaysCommits(f) ==
    /\ pc = "idle"
    /\ d.alive
    /\ w.state = "live"
    /\ fb[f].state = "live"
    /\ LET fb1 == [fb EXCEPT ![f].release_cb = TRUE]
           w1 == IF ~w.size_set
                   THEN [w EXCEPT !.buffer = f, !.width = fb[f].width,
                                  !.height = fb[f].height]
                   ELSE [w EXCEPT !.buffer = f]
           rq == RecenterReqs(w1, fb1) \o CommitReqs(w1, fb1)
       IN /\ fb' = fb1
          /\ w' = w1
          /\ reqs' = rq
          /\ surf' = SurfAfter(surf, rq)
          /\ busy' = BusyAfter(busy, rq, fb1)
          /\ obs' = [obs EXCEPT ![f] = [shown |-> TRUE, cbs |-> 0]]
    /\ call' = [op |-> "window_show_buffer", fb |-> f,
                unconf |-> (~w.configured /\ ~w.size_set), reply |-> "none"]
    /\ pc' = "show_rt"
    /\ last' = Last("window_show_buffer", FALSE, NULL)
    /\ UNCHANGED <<d, handles, released, advertised, params, uaf>>

\* window_show_buffer that calls the release callback of the buffer it replaces
WindowShowBuffer_ReleasesPrevious(f) ==
    /\ pc = "idle"
    /\ d.alive
    /\ w.state = "live"
    /\ fb[f].state = "live"
    /\ LET fb1 == [fb EXCEPT ![f].release_cb = TRUE]
           w1 == IF ~w.size_set
                   THEN [w EXCEPT !.buffer = f, !.width = fb[f].width,
                                  !.height = fb[f].height]
                   ELSE [w EXCEPT !.buffer = f]
           rq == IF w.configured
                   THEN RecenterReqs(w1, fb1) \o CommitReqs(w1, fb1) ELSE <<>>
           obs1 == IF w.buffer # NULL /\ w.buffer # f /\ fb[w.buffer].release_cb
                     THEN [obs EXCEPT ![w.buffer].cbs = Min(@ + 1, CbCap)] ELSE obs
       IN /\ fb' = fb1
          /\ w' = w1
          /\ reqs' = rq
          /\ surf' = SurfAfter(surf, rq)
          /\ busy' = BusyAfter(busy, rq, fb1)
          /\ obs' = [obs1 EXCEPT ![f] = [shown |-> TRUE, cbs |-> 0]]
    /\ call' = [op |-> "window_show_buffer", fb |-> f,
                unconf |-> (~w.configured /\ ~w.size_set), reply |-> "none"]
    /\ pc' = "show_rt"
    /\ last' = Last("window_show_buffer", FALSE, NULL)
    /\ UNCHANGED <<d, handles, released, advertised, params, uaf>>

\* window_show_buffer up to its round-trip
WindowShowBuffer(f) ==
    /\ pc = "idle"
    /\ d.alive
    /\ w.state = "live"
    /\ fb[f].state = "live"
    /\ LET fb1 == [fb EXCEPT ![f].release_cb = TRUE]
           w1 == IF ~w.size_set
                   THEN [w EXCEPT !.buffer = f, !.width = fb[f].width,
                                  !.height = fb[f].height]
                   ELSE [w EXCEPT !.buffer = f]
           rq == IF w.configured
                   THEN RecenterReqs(w1, fb1) \o CommitReqs(w1, fb1) ELSE <<>>
       IN /\ fb' = fb1
          /\ w' = w1
          /\ reqs' = rq
          /\ surf' = SurfAfter(surf, rq)
          /\ busy' = BusyAfter(busy, rq, fb1)
          /\ obs' = [obs EXCEPT ![f] = [shown |-> TRUE, cbs |-> 0]]
    /\ call' = [op |-> "window_show_buffer", fb |-> f,
                unconf |-> (~w.configured /\ ~w.size_set), reply |-> "none"]
    /\ pc' = "show_rt"
    /\ last' = Last("window_show_buffer", FALSE, NULL)
    /\ UNCHANGED <<d, handles, released, advertised, params, uaf>>

\* window_show_buffer returns from its round-trip
WindowShowBufferReturn ==
    /\ pc = "show_rt"
    /\ pc' = "idle"
    /\ reqs' = <<>>
    /\ last' = Last("window_show_buffer.return", FALSE, NULL)
    /\ call' = ZeroCall
    /\ UNCHANGED <<d, handles, released, advertised, w, surf, fb, params, busy,
                   obs, uaf>>

\* buffer_release calling the release callback twice
BufferRelease_CallsTwice(f) ==
    /\ InRoundtrip
    /\ f \in busy
    /\ fb[f].state = "live" /\ fb[f].buffer
    /\ busy' = busy \ {f}
    /\ obs' = IF fb[f].release_cb
                THEN [obs EXCEPT ![f].cbs = Min(@ + 2, CbCap)] ELSE obs
    /\ reqs' = <<>>
    /\ last' = Listener
    /\ UNCHANGED <<pc, d, handles, released, advertised, w, surf, fb, params,
                   call, uaf>>

\* buffer_release: the compositor releases a buffer it holds; the listener
\* calls the producer's release callback if one is set
BufferRelease(f) ==
    /\ InRoundtrip
    /\ f \in busy
    /\ fb[f].state = "live" /\ fb[f].buffer
    /\ busy' = busy \ {f}
    /\ obs' = IF fb[f].release_cb
                THEN [obs EXCEPT ![f].cbs = Min(@ + 1, CbCap)] ELSE obs
    /\ reqs' = <<>>
    /\ last' = Listener
    /\ UNCHANGED <<pc, d, handles, released, advertised, w, surf, fb, params,
                   call, uaf>>

\* dmabuf_format, dispatched by the first round-trip after the bind of
\* zwp_linux_dmabuf_v1.  The assertion passes while the count is <= 32, so the
\* 33rd event stores at drm_formats[32], one past the array; in struct display
\* that is the storage of drm_format_count itself, so the count ends as the
\* incremented value or as the format written over it.
DmabufFormat(format) ==
    /\ InRoundtrip
    /\ d.alive /\ d.dmabuf # NULL
    /\ IF d.drm_format_count > FormatCap
         THEN /\ pc' = "aborted"
              /\ last' = Ran("dmabuf_format", FALSE, -1, NULL, "none")
              /\ UNCHANGED d
         ELSE /\ last' = Ran("dmabuf_format", FALSE, d.drm_format_count, NULL, "none")
              /\ IF d.drm_format_count < FormatCap
                   THEN d' = [d EXCEPT !.drm_format_count = @ + 1]
                   ELSE \E c \in {d.drm_format_count + 1, format} :
                            d' = [d EXCEPT !.drm_format_count = c]
              /\ UNCHANGED pc
    /\ reqs' = <<>>
    /\ UNCHANGED <<handles, released, advertised, w, surf, fb, params, busy, obs,
                   call, uaf>>

\* ------------------------------------------------------------ specifications
\* advertisements of a compositor that display_create accepts
SessionSamples ==
    {<<"wl_compositor", "wp_viewporter", "zxdg_shell_v6", "zwp_linux_dmabuf_v1">>,
     <<"wl_compositor", "zxdg_shell_v6", "zwp_linux_dmabuf_v1">>,
     <<"zxdg_shell_v6", "zwp_linux_dmabuf_v1">>}

RECURSIVE BindAll(_, _)
BindAll(st, adv) ==
    IF adv = <<>> THEN st ELSE BindAll(Bind(st, Head(adv)), Tail(adv))

\* the process after a successful display_create
Init ==
    /\ pc = "idle"
    /\ \E adv \in SessionSamples :
          /\ advertised = adv
          /\ d = [BindAll(Connected, adv).d EXCEPT !.running = TRUE]
          /\ handles = BindAll(Connected, adv).handles
    /\ released = <<>>
    /\ w = ZeroWindow
    /\ surf = ZeroSurf
    /\ fb = [f \in FbIds |-> ZeroFb]
    /\ params = {}
    /\ busy = {}
    /\ obs = [f \in FbIds |-> ZeroObs]
    /\ call = ZeroCall
    /\ last = Last("display_create.return", FALSE, 1)
    /\ reqs = <<>>
    /\ uaf = FALSE

Next ==
    \/ DisplayCreateWindow
    \/ WindowDestroy
    \/ \E sz \in ConfigSizes : XdgToplevelConfigure(sz[1], sz[2])
    \/ XdgToplevelClose
    \/ \E serial \in Serials : XdgSurfaceConfigure(serial)
    \/ \E sz \in BufSizes : WindowCreateBuffer(sz[1], sz[2])
    \/ \E f \in FbIds : CreateSucceeded(f)
    \/ \E f \in FbIds : CreateFailed(f)
    \/ WindowCreateBufferReturn
    \/ \E f \in FbIds : WindowShowBuffer(f)
    \/ WindowShowBufferReturn
    \/ \E f \in FbIds : BufferRelease(f)
    \/ \E f \in FbIds : FbDestroy(f)
    \/ DisplayDestroy

\* the window and buffer life cycle of a created session, up to display_destroy
Spec == Init /\ [][Next]_vars

\* window_recenter on its own: a configured window with a viewport and an
\* explicit size (W, H), and one imported buffer of size (bw, bh)
Dims == 1 .. MaxDim

InitRecenter ==
    /\ pc = "idle"
    /\ advertised = <<"wl_compositor", "wp_viewporter", "zxdg_shell_v6",
                      "zwp_linux_dmabuf_v1">>
    /\ d = [BindAll(Connected, advertised).d EXCEPT !.running = TRUE]
    /\ handles = BindAll(Connected, advertised).handles
    /\ released = <<>>
    /\ \E W \in Dims, H \in Dims :
          w = [ZeroWindow EXCEPT !.state = "live", !.xdg = TRUE, !.viewport = TRUE,
                                 !.configured = TRUE, !.size_set = TRUE,
                                 !.width = W, !.height = H]
    /\ surf = ZeroSurf
    /\ \E bw \in Dims, bh \in Dims :
          fb = [f \in FbIds |->
                  IF f = 1 THEN [ZeroFb EXCEPT !.state = "live", !.width = bw,
                                               !.height = bh, !.buffer = TRUE,
                                               !.creates = 1]
                           ELSE ZeroFb]
    /\ params = {}
    /\ busy = {}
    /\ obs = [f \in FbIds |-> ZeroObs]
    /\ call = ZeroCall
    /\ last = Ran("window_create_buffer.return", FALSE, 1, 1, "created")
    /\ reqs = <<>>
    /\ uaf = FALSE

NextRecenter ==
    \/ \E f \in FbIds : WindowShowBuffer(f)
    \/ WindowShowBufferReturn
    \/ \E serial \in Serials : XdgSurfaceConfigure(serial)

SpecRecenter == InitRecenter /\ [][NextRecenter]_vars

\* the format events of the dmabuf global, which arrive in the round-trips of
\* the imports that follow display_create
NextFormats ==
    \/ DisplayCreateWindow
    \/ \E sz \in BufSizes : WindowCreateBuffer(sz[1], sz[2])
    \/ \E format \in Formats : DmabufFormat(format)
    \/ \E f \in FbIds : CreateSucceeded(f)
    \/ \E f \in FbIds : CreateFailed(f)
    \/ WindowCreateBufferReturn

SpecFormats == Init /\ [][NextFormats]_vars

\* a new window of a session with a compositor, and two imported frames of a
\* stream whose resolution may change between them
InitResize ==
    /\ pc = "idle"
    /\ \E adv \in {a \in SessionSamples : Head(a) = "wl_compositor"} :
          /\ advertised = adv
          /\ d = [BindAll(Connected, adv).d EXCEPT !.running = TRUE]
          /\ handles = BindAll(Connected, adv).handles
    /\ released = <<>>
    /\ w = [ZeroWindow EXCEPT !.state = "live", !.xdg = TRUE,
                              !.viewport = (d.viewporter # NULL)]
    /\ surf = ZeroSurf
    /\ \E s1 \in FrameSizes, s2 \in FrameSizes :
          fb = [f \in FbIds |->
                  IF f \in {1, 2}
                    THEN [ZeroFb EXCEPT !.state = "live", !.buffer = TRUE,
                                        !.creates = 1,
                                        !.width = (IF f = 1 THEN s1 ELSE s2)[1],
                                        !.height = (IF f = 1 THEN s1 ELSE s2)[2]]
                    ELSE ZeroFb]
    /\ params = {}
    /\ busy = {}
    /\ obs = [f \in FbIds |-> ZeroObs]
    /\ call = ZeroCall
    /\ last = Ran("window_create_buffer.return", FALSE, 2, 2, "created")
    /\ reqs = <<>>
    /\ uaf = FALSE

NextResize ==
    \/ \E sz \in ConfigSizes : XdgToplevelConfigure(sz[1], sz[2])
    \/ \E serial \in Serials : XdgSurfaceConfigure(serial)
    \/ \E f \in FbIds : WindowShowBuffer(f)
    \/ WindowShowBufferReturn
    \/ \E f \in FbIds : BufferRelease(f)

SpecResize == InitResize /\ [][NextResize]_vars

\* ------------------------------------------------------------------- claims
Mandatory == {"zxdg_shell_v6", "zwp_linux_dmabuf_v1"}

\* C1: when display_create returns from its registry round-trip, it returns a
\* running session iff zxdg_shell_v6 and zwp_linux_dmabuf_v1 were both
\* advertised; otherwise it returns NULL and the session is gone, whatever
\* else was advertised and in whatever order.
C1_RunningIffBothGlobals ==
    last.op = "display_create.return" =>
        IF Mandatory \subseteq Range(advertised)
          THEN last.ret # NULL /\ d.alive /\ d.running
          ELSE last.ret = NULL /\ ~d.alive /\ ~d.running

\* C1 witness: compositor, viewporter and shell advertised, no dmabuf: failure
C1_Witness_NoDmabuf ==
    /\ last.op = "display_create.return"
    /\ Range(advertised) = {"wl_compositor", "wp_viewporter", "zxdg_shell_v6"}
    /\ last.ret = NULL

\* C2: when the failure reply was dispatched during the round-trip of
\* window_create_buffer, then at its return the session is not running, the
\* fb has no wl_buffer bound, the call returned NULL, and exactly one create
\* request was issued for it (no retry, nothing left pending).
C2_FailedImportStopsSession ==
    (last.op = "window_create_buffer.return" /\ last.reply = "failed") =>
        /\ ~d.running
        /\ ~fb[last.fb].buffer
        /\ last.ret = NULL
        /\ fb[last.fb].creates = 1
        /\ last.fb \notin params

\* C2 witness: a window_create_buffer that returned after a failure reply
C2_Witness_FailedImport ==
    last.op = "window_create_buffer.return" /\ last.reply = "failed" /\ d.alive

\* C3 as claimed: once everything is torn down, every buffer that was shown
\* had its release callback invoked exactly once for its show cycle, every
\* buffer never shown had none, and no fd was closed.
C3_Orig_ExactlyOneRelease ==
    pc = "destroyed" =>
        \A f \in FbIds :
            /\ obs[f].shown => obs[f].cbs = 1
            /\ ~obs[f].shown => obs[f].cbs = 0
            /\ ~fb[f].fd_closed

\* C3 amended: a buffer never shown has no callback and no fd is ever closed;
\* a release callback is invoked only by a release notification dispatched in
\* a round-trip for a buffer the compositor holds (committed and not yet
\* released), once per notification; so a show cycle can end with no
\* callback at all, and teardown invokes none.
C3_ReleaseOnlyOnNotification ==
    /\ [](\A f \in FbIds : (~obs[f].shown => obs[f].cbs = 0) /\ ~fb[f].fd_closed)
    /\ [][\A f \in FbIds :
            obs'[f].cbs > obs[f].cbs =>
                /\ InRoundtrip
                /\ f \in busy /\ f \notin busy'
                /\ obs'[f].cbs = obs[f].cbs + 1]_vars

\* C3 witness: torn down, a shown buffer whose callback ran once
C3_Witness_ReleasedOnce ==
    pc = "destroyed" /\ \E f \in FbIds : obs[f].shown /\ obs[f].cbs = 1

\* C4 as claimed: every destination window_recenter sets keeps the aspect
\* ratio within rounding, |vw*bh - vh*bw| < max(bw, bh), and fits inside the
\* window, vw <= W and vh <= H.
C4_Orig_AspectAndFits ==
    \A i \in 1 .. Len(reqs) :
        reqs[i].req = "set_destination" =>
            LET vw == reqs[i].a
                vh == reqs[i].b
                bw == fb[w.buffer].width
                bh == fb[w.buffer].height
            IN /\ Abs(vw * bh - vh * bw) < Max(bw, bh)
               /\ vw <= w.width
               /\ vh <= w.height

\* the handles the session holds when it is destroyed: the last bound of each kind
Held == {i \in 1 .. Len(handles) : \A j \in i + 1 .. Len(handles) : handles[j] # handles[i]}

\* the place of a handle in the if-chain of display_destroy
Rank(kind) ==
    CASE kind = "wp_viewporter" -> 1
      [] kind = "wl_compositor" -> 2
      [] kind = "zxdg_shell_v6" -> 3
      [] kind = "zwp_linux_dmabuf_v1" -> 4
      [] kind = "wl_registry" -> 5
      [] kind = "wl_display" -> 6

\* C5 as claimed: once the session is destroyed (by display_destroy or by the
\* cleanup of a failed display_create), every handle it acquired has been
\* released exactly once, in the reverse of the order of creation.
C5_Orig_ReverseCreationOrder ==
    (~d.alive /\ handles # <<>>) =>
        released = [i \in 1 .. Len(handles) |-> Len(handles) + 1 - i]

\* C5 amended: once the session is destroyed, the handles it still held (the
\* last bound handle of each recognised global, the registry, the connection)
\* have each been released exactly once, in the fixed order viewporter,
\* compositor, shell, dmabuf, registry, connection, whatever the order of
\* advertisement; a handle overwritten by a repeated advertisement is never
\* released; and no listener runs afterwards.
C5_HeldReleasedOnceFixedOrder ==
    (~d.alive /\ handles # <<>>) =>
        /\ Range(released) = Held
        /\ \A i, j \in 1 .. Len(released) :
              i < j => Rank(handles[released[i]]) < Rank(handles[released[j]])
        /\ last.op # "listener"

\* C5 witness: a session destroyed after a recognised global came twice
C5_Witness_DuplicateGlobal ==
    /\ pc = "destroyed"
    /\ Held # 1 .. Len(handles)
    /\ Len(released) < Len(handles)

\* C6 as claimed: throughout a window_show_buffer call that started on a
\* window with no configure event and no explicit size, no destination is set
\* and no buffer attached, and right after its own code the window has the
\* buffer's size.
C6_Orig_NothingDuringCall ==
    (pc = "show_rt" /\ call.unconf) =>
        /\ surf.dest = NoDest
        /\ surf.attached = NULL
        /\ last.op = "window_show_buffer" =>
              w.width = fb[call.fb].width /\ w.height = fb[call.fb].height

\* C6 amended: the code of window_show_buffer before its trailing round-trip,
\* run on such a window, makes the window's size the buffer's and issues no
\* request (no destination, no attach); and as long as the window is not
\* configured no destination is set and nothing is attached, so the first
\* destination comes from a surface configure, which that call's own
\* round-trip may already dispatch.
C6_NothingBeforeConfigure ==
    /\ (last.op = "window_show_buffer" /\ call.unconf) =>
          /\ w.width = fb[call.fb].width /\ w.height = fb[call.fb].height
          /\ w.buffer = call.fb
          /\ reqs = <<>>
    /\ ~w.configured => surf.dest = NoDest /\ surf.attached = NULL

\* C6 witness: the surface configure arrived inside the round-trip of that call
C6_Witness_ConfiguredInsideCall ==
    pc = "show_rt" /\ call.unconf /\ w.configured /\ surf.dest # NoDest

\* a window_show_buffer step on a window already configured at 1280x720
\* with a 1920x1080 buffer
ScenarioC ==
    /\ last.op = "window_show_buffer"
    /\ w.configured /\ w.width = 1280 /\ w.height = 720
    /\ fb[w.buffer].width = 1920 /\ fb[w.buffer].height = 1080

\* C7 as claimed: that step sets the destination (1280, 405).
C7_Orig_Dest405 == ScenarioC => surf.dest = <<1280, 405>>

\* C7 amended: that step sets the destination (1280, 720): 1280*1080/1920.
C7_Dest720 ==
    ScenarioC =>
        /\ surf.dest = <<1280, 720>>
        /\ \E i \in 1 .. Len(reqs) : reqs[i] = Req("set_destination", 1280, 720)

\* C7 witness: the scenario happened
C7_Witness_ScenarioC == ScenarioC /\ surf.attached = w.buffer

\* C8: the session starts running; running only ever goes from true to false,
\* and only in create_failed or xdg_toplevel_handle_close; the close handler
\* changes nothing but running.
C8_RunningMonotone ==
    /\ d.running
    /\ [][/\ ~d.running => ~d'.running
          /\ (d.running /\ ~d'.running) =>
                (XdgToplevelClose \/ \E f \in FbIds : CreateFailed(f))
          /\ XdgToplevelClose =>
                /\ d' = [d EXCEPT !.running = FALSE]
                /\ UNCHANGED <<pc, handles, released, w, surf, fb, params, busy,
                               obs, call, uaf>>]_vars

\* C8 witness: closed (no import ever failed), the window still has its
\* configured state and attached buffer
C8_Witness_ClosedWindowIntact ==
    /\ d.alive /\ ~d.running
    /\ w.state = "live" /\ w.configured /\ w.buffer # NULL
    /\ surf.attached = w.buffer
    /\ \A f \in FbIds : fb[f].frees = 0

\* C9 as claimed: a step in which an allocation failed returned NULL to its
\* caller and did nothing else (no crash, no request).
C9_Orig_AllocFailureReturnsNull ==
    last.oom => (pc # "crashed" /\ last.ret = NULL /\ reqs = <<>>)

\* C10 as claimed: after a failed import window_create_buffer has returned
\* NULL and the fb still exists, not yet destroyed.
C10_Orig_FbSurvivesFailedImport ==
    (last.op = "window_create_buffer.return" /\ last.reply = "failed") =>
        /\ last.ret = NULL
        /\ fb[last.fb].state = "live"
        /\ fb[last.fb].frees = 0

\* C10 amended: after a failed import window_create_buffer has returned NULL
\* and has itself destroyed the fb, once (the caller is given no reference
\* to destroy); no fb is ever destroyed twice.
C10_ImportDestroysFbOnce ==
    /\ (last.op = "window_create_buffer.return" /\ last.reply = "failed") =>
          /\ last.ret = NULL
          /\ fb[last.fb].state = "freed"
          /\ fb[last.fb].frees = 1
    /\ \A f \in FbIds : fb[f].frees <= 1

\* C10 witness: a failed import whose fb has been freed by the call
C10_Witness_FreedByImport ==
    /\ last.op = "window_create_buffer.return"
    /\ last.reply = "failed"
    /\ fb[last.fb].state = "freed"

\* C11: the window has one current-buffer reference, which window_show_buffer
\* overwrites; a window_show_buffer step changes the callback count of no
\* buffer but the one it shows (whose count starts again at zero), so it
\* never invokes the release callback of the buffer it replaces; a callback
\* count grows only in a buffer_release step for that same buffer.
C11_ShowNeverReleasesPrevious ==
    /\ [](w.buffer \in FbIds \cup {NULL})
    /\ [][/\ (pc = "idle" /\ pc' = "show_rt") =>
                /\ w'.buffer \in FbIds
                /\ obs'[w'.buffer].cbs = 0
                /\ \A g \in FbIds \ {w'.buffer} : obs'[g] = obs[g]
          /\ \A f \in FbIds :
                obs'[f].cbs > obs[f].cbs => BufferRelease(f) /\ fb[f].release_cb]_vars

\* C11 witness: a second buffer has just been shown and committed while the
\* compositor still holds the first, whose callback has not run
C11_Witness_ShownOverHeld ==
    /\ last.op = "window_show_buffer"
    /\ \E f \in FbIds, g \in FbIds :
          /\ f # g
          /\ w.buffer = f /\ surf.attached = f
          /\ obs[g].shown /\ g \in busy /\ obs[g].cbs = 0

\* the destinations set by the last step
SetDestinations == SelectSeq(reqs, LAMBDA r : r.req = "set_destination")

\* C12: for positive window size (W, H) and buffer size (bw, bh), a step that
\* shows or re-commits sets exactly one destination (vw, vh), and it is the
\* reference: when bw > bh, vw = W and vh is the truncated quotient W*bh/bw
\* (vh*bw <= W*bh < (vh+1)*bw); otherwise, bw = bh included, vh = H and vw is
\* the truncated quotient H*bw/bh.
C12_DestinationIsReference ==
    (w.buffer # NULL /\ last.op \in {"window_show_buffer", "listener"}) =>
        LET W == w.width
            H == w.height
            bw == fb[w.buffer].width
            bh == fb[w.buffer].height
            vw == SetDestinations[1].a
            vh == SetDestinations[1].b
        IN /\ Len(SetDestinations) = 1
           /\ surf.dest = <<vw, vh>>
           /\ IF bw > bh
                 THEN vw = W /\ vh * bw <= W * bh /\ W * bh < (vh + 1) * bw
                 ELSE vh = H /\ vw * bh <= H * bw /\ H * bw < (vw + 1) * bh

\* C12 witness: a square buffer shown in a window that is not square
C12_Witness_SquareBuffer ==
    /\ last.op = "window_show_buffer"
    /\ w.buffer # NULL
    /\ fb[w.buffer].width = fb[w.buffer].height
    /\ w.width # w.height
    /\ surf.dest = <<w.height, w.height>>

\* C13 as claimed: a destination is set only with a current buffer and with
\* the window's and the buffer's width and height all strictly positive, and
\* neither component of a destination that is set is zero or negative.
C13_Orig_DestinationPositive ==
    \A i \in 1 .. Len(SetDestinations) :
        /\ w.buffer # NULL
        /\ w.width > 0 /\ w.height > 0
        /\ fb[w.buffer].width > 0 /\ fb[w.buffer].height > 0
        /\ SetDestinations[i].a > 0 /\ SetDestinations[i].b > 0

\* C14 as claimed: a toplevel configure event with positive (width, height)
\* that differ from the stored size makes them the stored size and sets
\* size_set, on every window; an event with a non-positive width or height
\* leaves the window as it was.
C14_Orig_AdoptedOnEveryWindow ==
    [][\A sz \in ConfigSizes :
          XdgToplevelConfigure(sz[1], sz[2]) =>
              /\ (sz[1] > 0 /\ sz[2] > 0 /\ <<w.width, w.height>> # sz) =>
                    (<<w'.width, w'.height>> = sz /\ w'.size_set)
              /\ (sz[1] <= 0 \/ sz[2] <= 0) => w' = w]_vars

\* C14 amended: on a window that has a viewport, a toplevel configure event
\* with positive (width, height) that differ from the stored size makes them
\* the stored size and sets size_set, and changes nothing else of the window;
\* every other toplevel configure event (a non-positive width or height, a
\* size equal to the stored one, or a window without a viewport) leaves the
\* window, size_set and configured included, as it was.
C14_AdoptedOnlyWithViewport ==
    [][\A sz \in ConfigSizes :
          XdgToplevelConfigure(sz[1], sz[2]) =>
              IF w.viewport /\ sz[1] > 0 /\ sz[2] > 0 /\ <<w.width, w.height>> # sz
                THEN w' = [w EXCEPT !.width = sz[1], !.height = sz[2],
                                    !.size_set = TRUE]
                ELSE w' = w]_vars

\* C14 witness: a window with a viewport has just adopted 1280x720 from a
\* toplevel configure event, over the size it had taken from its buffer
C14_Witness_AdoptedOverBufferSize ==
    /\ last = Listener
    /\ w.viewport /\ w.size_set
    /\ <<w.width, w.height>> = <<1280, 720>>
    /\ surf.size = <<1280, 720>>
    /\ w.buffer # NULL /\ fb[w.buffer].width = 1920
    /\ ~w.configured

\* C15 as claimed: when a surface configure event is handled on a window that
\* is not yet configured and already has a current (not destroyed) buffer,
\* the handler acknowledges the serial, the window becomes configured, and
\* the handler attaches that buffer and commits, with or without a viewport.
C15_Orig_CommittedAtFirstConfigure ==
    [][\A serial \in Serials :
          (/\ XdgSurfaceConfigure(serial)
           /\ ~w.configured
           /\ w.buffer # NULL
           /\ fb[w.buffer].state = "live") =>
              /\ Head(reqs') = Req("ack_configure", serial, 0)
              /\ w'.configured
              /\ \E i \in 1 .. Len(reqs'), j \in 1 .. Len(reqs') :
                    /\ i < j
                    /\ reqs'[i] = Req("attach", w.buffer, 0)
                    /\ reqs'[j].req = "commit"
              /\ surf'.attached = w.buffer]_vars

\* C16 as claimed: a call of window_create_buffer issues one create_params,
\* one add (plane 0, modifier 0) and one create; when it has returned, the
\* parameters object of the call has been destroyed, the result is non-null
\* exactly when the success reply was dispatched in the call's round-trip
\* (and then the fb is alive with its handle bound), and no reply listener
\* of the call is left pending on an fb the call has freed.
C16_Orig_ImportSettledOnReturn ==
    /\ (last.op = "window_create_buffer" /\ ~last.oom) =>
          /\ Len(reqs) = 3
          /\ reqs[1] = Req("create_params", call.fb, 0)
          /\ reqs[2] = Req("params_add", 0, 0)
          /\ reqs[3].req = "params_create"
    /\ last.op = "window_create_buffer.return" =>
          /\ last.fb \notin params
          /\ (last.ret # NULL) <=> (last.reply = "created")
          /\ last.ret # NULL => (fb[last.ret].state = "live" /\ fb[last.ret].buffer)
          /\ \A f \in params : fb[f].state # "freed"

\* C17 as claimed: whatever number of format events arrives, the format count
\* never exceeds 32 and every format event either stores at an index 0..31 of
\* drm_formats or stores nothing because the assertion failed first.
C17_Orig_FormatsInsideArray ==
    /\ d.drm_format_count <= FormatCap
    /\ last.op = "dmabuf_format" =>
          \/ last.ret \in 0 .. FormatCap - 1
          \/ last.ret = -1 /\ pc = "aborted"

\* C18 as claimed: when a surface configure handler or a show call has used
\* the window's current buffer (the guard of window_recenter passed, or a
\* buffer was attached), that buffer had not been destroyed.
C18_Orig_CurrentBufferNotDestroyed ==
    /\ (reqs # <<>> /\ Head(reqs).req = "ack_configure" /\ CanRecenter(w)) =>
          fb[w.buffer].state = "live"
    /\ \A i \in 1 .. Len(reqs) :
          (reqs[i].req = "attach" /\ reqs[i].a # NULL) => fb[reqs[i].a].state = "live"

\* C19: on a window with an xdg surface nothing is attached while configured
\* is false: the surface has a buffer attached only if the window is
\* configured, every step that issues an attach or a damage runs with
\* configured true (the commit of display_create_window attaches nothing),
\* and a handler that acknowledges a configure serial does so first, before
\* any attach or commit it makes.
C19_AttachOnlyWhenConfigured ==
    w.xdg =>
        /\ surf.attached # NULL => w.configured
        /\ \A i \in 1 .. Len(reqs) :
              /\ reqs[i].req \in {"attach", "damage", "set_destination"} => w.configured
              /\ reqs[i].req = "ack_configure" =>
                    (i = 1 /\ reqs[i].a \in Serials /\ w.configured)
              /\ (reqs[i].req = "commit" /\ ~w.configured) =>
                    \A j \in 1 .. Len(reqs) : reqs[j].req # "attach"

\* C19 witness: the first surface configure event, handled inside the
\* round-trip of the show call that found the window unconfigured, has
\* acknowledged its serial and then attached and committed the shown buffer
C19_Witness_AckThenCommit ==
    /\ call.op = "window_show_buffer" /\ call.unconf
    /\ w.configured
    /\ Len(reqs) > 1
    /\ reqs[1].req = "ack_configure"
    /\ \E i \in 2 .. Len(reqs) : reqs[i] = Req("attach", call.fb, 0)
    /\ surf.attached = call.fb

\* C20 as claimed: once the window has handled a toplevel configure event
\* with strictly positive width and height, its stored size is the size of
\* the most recent such event, in every later state.
C20_Orig_SizeIsLastConfigured ==
    (w.state = "live" /\ surf.size # NoDest) => <<w.width, w.height>> = surf.size

=============================================================================
